---------------------------- MODULE Spec2Model ----------------------------
(***************************************************************************)
(* A model of the segments-ai export code (src/src/segments/export.py and  *)
(* src/src/segments/utils.py): the id <-> rgb codec, the IdGenerator color *)
(* allocator, get_semantic_bitmap, and the four format emitters behind     *)
(* export_dataset.                                                         *)
(*                                                                         *)
(* Conventions.  A color is a tuple <<r, g, b>>.  A raster is a sequence   *)
(* of rows, each row a sequence of integers.  A python value that may be   *)
(* None is a pair of fields: has_x (BOOLEAN) and x.                        *)
(***************************************************************************)
EXTENDS Integers, Sequences, FiniteSets, TLC

VARIABLES
    \* -- codec (rgb2id / id2rgb) --
    codec_pc,        \* "start" | "encoded" | "decoded"
    codec_in,        \* [kind |-> "scalar", id |-> n] or [kind |-> "array", map |-> raster]
    codec_rgb,       \* the value id2rgb returned
    codec_out,       \* the value rgb2id returned
    \* -- IdGenerator --
    categories,      \* self.categories: cat id -> [id, color, isthing]
    taken_colors,    \* self.taken_colors
    calls,           \* the IdGenerator calls made so far, in order: [cat_id, color]
    ret,             \* what the last IdGenerator call returned: [op, cat_id, color, id]
    rng_offsets,     \* the per-channel offsets np.random.randint yields in this run
    \* -- get_semantic_bitmap --
    sem_in,          \* the arguments: [has_bitmap, bitmap, has_annotations, annotations, id_increment]
    sem_pc,          \* "start" | "returned" | "returned_none" | "raised"
    sem_out,         \* the raster returned
    \* -- export_dataset and the emitters --
    export_format,   \* the export_format argument
    task_type,       \* dataset.task_type
    dataset,         \* the samples dataset[0], dataset[1], ... as a sequence
    ds_categories,   \* dataset.categories
    id_increment,    \* the id_increment argument
    entry,           \* "none" | "export_dataset" | the emitter called directly
    ex_pc,           \* "idle" | "loop" | "done" | "error"
    ex_error,        \* the exception that ended the export, or "none"
    i,               \* the loop index of the emitter (0-based)
    n_read,          \* how many times dataset[i] was evaluated
    images,          \* the emitter's images list
    annotations,     \* the emitter's annotations list
    annotation_id,   \* export_coco_instance's counter
    files            \* the files written so far, in order

codecVars == <<codec_pc, codec_in, codec_rgb, codec_out>>
idgenVars == <<categories, taken_colors, calls, ret, rng_offsets>>
semVars == <<sem_in, sem_pc, sem_out>>
inputVars == <<export_format, task_type, dataset, ds_categories, id_increment>>
exportVars == <<entry, ex_pc, ex_error, i, n_read, images, annotations, annotation_id, files>>
vars == <<codecVars, idgenVars, semVars, inputVars, exportVars>>

-----------------------------------------------------------------------------
(* Generic helpers *)

Min(a, b) == IF a < b THEN a ELSE b

Max(a, b) == IF a > b THEN a ELSE b

Range(s) == {s[k] : k \in DOMAIN s}

-----------------------------------------------------------------------------
(* Id/Color codec: export.py rgb2id, id2rgb *)

\* width in bits of a numpy integer dtype
DtypeBits(dtype) == IF dtype = "uint8" THEN 8 ELSE 32

\* numpy integer arithmetic of the given width.  The 32-bit results used here
\* never exceed 255 + 256*255 + 65536*255 < 2^31, so only 8-bit wraps.
IntOfWidth(bits, x) == IF bits = 8 THEN x % 256 ELSE x

\* color[0] + 256 * color[1] + 256 * 256 * color[2] in arithmetic of that width
PackChannels(bits, px) ==
    IntOfWidth(bits,
        IntOfWidth(bits, px[1] + IntOfWidth(bits, 256 * px[2]))
        + IntOfWidth(bits, 256 * 256 * px[3]))

\* rgb2id, tuple branch (export.py line 143)
rgb2id(color) == color[1] + 256 * color[2] + 256 * 256 * color[3]

\* rgb2id on an array whose uint8 channels are multiplied without astype(int32)
rgb2id_array_no_upcast(color, dtype) ==
    LET one(px) == PackChannels(DtypeBits(dtype), px)
    IN  [r \in DOMAIN color |-> [c \in DOMAIN color[r] |-> one(color[r][c])]]

\* rgb2id, ndarray branch (export.py lines 139-142): color is an H x W raster of
\* <<r,g,b>> pixels of the given dtype; uint8 is widened to int32 first.
rgb2id_array(color, dtype) ==
    LET widened == IF dtype = "uint8" THEN "int32" ELSE dtype
        one(px) == PackChannels(DtypeBits(widened), px)
    IN  [r \in DOMAIN color |-> [c \in DOMAIN color[r] |-> one(color[r][c])]]

\* id2rgb, scalar branch (export.py lines 162-166): three rounds of
\* append(id % 256); id //= 256
id2rgb(id_map) ==
    LET c1 == id_map % 256
        i1 == id_map \div 256
        c2 == i1 % 256
        i2 == i1 \div 256
        c3 == i2 % 256
    IN  <<c1, c2, c3>>

\* id2rgb, ndarray branch (export.py lines 154-161): rgb_map is uint8, each
\* channel is stored as id_map_copy % 256 and the copy is divided in place.
id2rgb_array(id_map) ==
    LET one(v) ==
            LET c1 == IntOfWidth(8, v % 256)
                i1 == v \div 256
                c2 == IntOfWidth(8, i1 % 256)
                i2 == i1 \div 256
                c3 == IntOfWidth(8, i2 % 256)
            IN  <<c1, c2, c3>>
    IN  [r \in DOMAIN id_map |-> [c \in DOMAIN id_map[r] |-> one(id_map[r][c])]]

\* the ids tried: every combination of boundary bytes, and two ids that need a
\* fourth byte
ChannelSamples == {0, 1, 128, 255}

SampleIds ==
    {a + 256 * b + 256 * 256 * c : a \in ChannelSamples, b \in ChannelSamples,
                                   c \in ChannelSamples}
    \cup {256 * 256 * 256, 256 * 256 * 256 + 257}

\* the 2-D id arrays tried: 1 x 2 and 2 x 1 arrays of boundary ids
ArraySampleIds == {0, 255, 256, 65535, 65536, 256 * 256 * 255 + 256 * 128 + 1,
                   256 * 256 * 256 - 1}

SampleIdMaps ==
    {<<<<a, b>>>> : a \in ArraySampleIds, b \in ArraySampleIds}
    \cup {<<<<a>>, <<b>>>> : a \in {0, 256 * 256 * 256 - 1}, b \in ArraySampleIds}

CodecIdle ==
    /\ codec_pc = "idle"
    /\ codec_in = [kind |-> "none"]
    /\ codec_rgb = <<>>
    /\ codec_out = <<>>

InitCodec ==
    /\ codec_pc = "start"
    /\ codec_in \in {[kind |-> "scalar", id |-> x] : x \in SampleIds}
                    \cup {[kind |-> "array", map |-> m] : m \in SampleIdMaps}
    /\ codec_rgb = <<>>
    /\ codec_out = <<>>

\* id2rgb(x) on a python int
Id2RgbScalar ==
    /\ codec_pc = "start"
    /\ codec_in.kind = "scalar"
    /\ codec_rgb' = id2rgb(codec_in.id)
    /\ codec_pc' = "encoded"
    /\ UNCHANGED <<codec_in, codec_out, idgenVars, semVars, inputVars, exportVars>>

\* id2rgb(id_map) on a 2-D ndarray
Id2RgbArray ==
    /\ codec_pc = "start"
    /\ codec_in.kind = "array"
    /\ codec_rgb' = id2rgb_array(codec_in.map)
    /\ codec_pc' = "encoded"
    /\ UNCHANGED <<codec_in, codec_out, idgenVars, semVars, inputVars, exportVars>>

\* rgb2id(color) on the tuple id2rgb returned
Rgb2IdScalar ==
    /\ codec_pc = "encoded"
    /\ codec_in.kind = "scalar"
    /\ codec_out' = <<rgb2id(codec_rgb)>>
    /\ codec_pc' = "decoded"
    /\ UNCHANGED <<codec_in, codec_rgb, idgenVars, semVars, inputVars, exportVars>>

\* rgb2id(color) on the uint8 H x W x 3 array id2rgb returned
Rgb2IdArray ==
    /\ codec_pc = "encoded"
    /\ codec_in.kind = "array"
    /\ codec_out' = rgb2id_array(codec_rgb, "uint8")
    /\ codec_pc' = "decoded"
    /\ UNCHANGED <<codec_in, codec_rgb, idgenVars, semVars, inputVars, exportVars>>

NextCodec == Id2RgbScalar \/ Id2RgbArray \/ Rgb2IdScalar \/ Rgb2IdArray

-----------------------------------------------------------------------------
(* Label bitmap files: utils.py bitmap2file and extract_bitmap *)

\* ndarray.view(np.uint8) of one uint32 value: its four bytes in memory order,
\* least significant first (numpy's native order on little-endian builds)
ViewUint8(v) ==
    <<v % 256, (v \div 256) % 256, (v \div (256 * 256)) % 256,
      (v \div (256 * 256 * 256)) % 256>>

\* the four bytes of a pixel, most significant first
ViewUint8BigEndian(v) ==
    <<(v \div (256 * 256 * 256)) % 256, (v \div (256 * 256)) % 256,
      (v \div 256) % 256, v % 256>>

\* ndarray.view(np.uint32) of four bytes
ViewUint32(px) ==
    px[1] + 256 * px[2] + 256 * 256 * px[3] + 256 * 256 * 256 * px[4]

\* bitmap2file with the bytes of a pixel taken most significant first
bitmap2file_big_endian(bitmap, dtype) ==
    IF dtype \notin {"uint32", "uint8"}
    THEN [raised |-> TRUE, bitmap |-> bitmap, file |-> <<>>]
    ELSE [raised |-> FALSE,
          bitmap |-> bitmap,
          file |-> [r \in DOMAIN bitmap |-> [c \in DOMAIN bitmap[r] |->
                       [ViewUint8BigEndian(bitmap[r][c]) EXCEPT ![4] = 255]]]]

\* bitmap2file(bitmap) with is_segmentation_bitmap = True (utils.py lines
\* 39-57): a dtype other than uint32 and uint8 fails the assert of line 45;
\* np.uint32(bitmap) keeps the values; bitmap2 is a copy, seen as H x W x 4
\* bytes, with byte 3 set to 255; the PNG holds bitmap2.  The result names the
\* caller's array after the call (untouched: line 48 works on a copy) and the
\* RGBA image of the file.
bitmap2file(bitmap, dtype) ==
    IF dtype \notin {"uint32", "uint8"}
    THEN [raised |-> TRUE, bitmap |-> bitmap, file |-> <<>>]
    ELSE [raised |-> FALSE,
          bitmap |-> bitmap,
          file |-> [r \in DOMAIN bitmap |-> [c \in DOMAIN bitmap[r] |->
                       [ViewUint8(bitmap[r][c]) EXCEPT ![4] = 255]]]]

\* extract_bitmap(image) (utils.py lines 199-206): the RGBA array of the
\* image with byte 3 set to 0, seen as uint32
extract_bitmap(image) ==
    [r \in DOMAIN image |-> [c \in DOMAIN image[r] |->
        ViewUint32([image[r][c] EXCEPT ![4] = 0])]]

\* the uint32 ids tried: byte boundaries below 2^24 and ids that use the
\* fourth byte
BitmapSampleIds ==
    {0, 1, 255, 256, 65536, 256 * 256 * 255 + 256 * 128 + 1, 256 * 256 * 256 - 1,
     256 * 256 * 256, 256 * 256 * 256 * 5 + 258}

\* the arrays tried: uint32 rasters of one row or one column, uint8 rasters,
\* and a raster of a dtype bitmap2file does not take
BitmapInputs ==
    {[kind |-> "bitmap", dtype |-> "uint32", given |-> m, map |-> m] :
        m \in {<<<<a, b>>>> : a \in BitmapSampleIds, b \in BitmapSampleIds}
              \cup {<<<<a>>, <<0>>>> : a \in BitmapSampleIds}}
    \cup {[kind |-> "bitmap", dtype |-> "uint8", given |-> m, map |-> m] :
            m \in {<<<<a, b>>>> : a \in {0, 1, 255}, b \in {0, 255}}}
    \cup {[kind |-> "bitmap", dtype |-> "int64", given |-> <<<<1, 2>>>>, map |-> <<<<1, 2>>>>]}

InitBitmap ==
    /\ codec_pc = "start"
    /\ codec_in \in BitmapInputs
    /\ codec_rgb = <<>>
    /\ codec_out = <<>>

\* bitmap2file(bitmap): codec_rgb is the image of the file returned
Bitmap2File ==
    /\ codec_pc = "start"
    /\ codec_in.kind = "bitmap"
    /\ LET o == bitmap2file(codec_in.map, codec_in.dtype)
       IN  /\ codec_in' = [codec_in EXCEPT !.map = o.bitmap]
           /\ codec_rgb' = o.file
           /\ codec_pc' = IF o.raised THEN "raised" ELSE "filed"
    /\ UNCHANGED <<codec_out, idgenVars, semVars, inputVars, exportVars>>

\* extract_bitmap on the image read back from the file
ExtractBitmap ==
    /\ codec_pc = "filed"
    /\ codec_in.kind = "bitmap"
    /\ codec_out' = extract_bitmap(codec_rgb)
    /\ codec_pc' = "extracted"
    /\ UNCHANGED <<codec_in, codec_rgb, idgenVars, semVars, inputVars, exportVars>>

NextBitmap == Bitmap2File \/ ExtractBitmap

-----------------------------------------------------------------------------
(* Color allocator: export.py class IdGenerator *)

\* random_color's default max_dist
max_dist == 30

\* np.random.randint(-max_dist, max_dist + 1) draws from -max_dist .. max_dist.
\* A run lets it draw from two values of that range: 0 and one of its ends when
\* the allocator is driven alone, 0 and the upper end inside an export.
RandomOffsetChoices == {{0, max_dist}, {-max_dist, 0}}

ExportRandomOffsets == {0, max_dist}

\* random_color without np.maximum / np.minimum
random_color_unclamped(base, off) == <<base[1] + off[1], base[2] + off[2], base[3] + off[3]>>

\* random_color: base + offsets, each channel clamped to [0, 255]
random_color(base, off) ==
    <<Max(0, Min(255, base[1] + off[1])),
      Max(0, Min(255, base[2] + off[2])),
      Max(0, Min(255, base[3] + off[3]))>>

\* every color one draw of random_color(base) can give
Candidates(offsets, base) ==
    {random_color(base, <<a, b, c>>) : a \in offsets, b \in offsets, c \in offsets}

\* IdGenerator.__init__: black and the color of every category with isthing == 0
InitTaken(cats) ==
    {<<0, 0, 0>>} \cup {cats[k].color : k \in {x \in DOMAIN cats : cats[x].isthing = 0}}

\* get_color that claims the color of a stuff category like that of a thing
get_color_claims_stuff(offsets, cats, taken, cat_id) ==
    LET category == cats[cat_id]
        base_color == category.color
    IN  IF base_color \notin taken
        THEN {[color |-> base_color, taken |-> taken \cup {base_color}]}
        ELSE {[color |-> c, taken |-> taken \cup {c}] : c \in Candidates(offsets, base_color) \ taken}

\* get_color that returns the first candidate drawn without looking it up
get_color_no_retry(offsets, cats, taken, cat_id) ==
    LET category == cats[cat_id]
        base_color == category.color
    IN  IF category.isthing = 0
        THEN {[color |-> category.color, taken |-> taken]}
        ELSE IF base_color \notin taken
        THEN {[color |-> base_color, taken |-> taken \cup {base_color}]}
        ELSE {[color |-> c, taken |-> taken \cup {c}] : c \in Candidates(offsets, base_color)}

\* IdGenerator.get_color: the outcomes [color returned, taken_colors afterwards]
\* of one call.  The while-loop returns the first candidate drawn that is not
\* taken, so every untaken candidate is a possible outcome; with none the call
\* does not return and the set is empty.
get_color(offsets, cats, taken, cat_id) ==
    LET category == cats[cat_id]
        base_color == category.color
    IN  IF category.isthing = 0
        THEN {[color |-> category.color, taken |-> taken]}
        ELSE IF base_color \notin taken
        THEN {[color |-> base_color, taken |-> taken \cup {base_color}]}
        ELSE {[color |-> c, taken |-> taken \cup {c}] : c \in Candidates(offsets, base_color) \ taken}

\* IdGenerator.get_id: the outcomes [id returned, taken_colors afterwards]
get_id(offsets, cats, taken, cat_id) ==
    {[id |-> rgb2id(o.color), taken |-> o.taken] :
        o \in get_color(offsets, cats, taken, cat_id)}

\* IdGenerator.get_id_and_color: the outcomes [id, color, taken_colors afterwards]
get_id_and_color(offsets, cats, taken, cat_id) ==
    {[id |-> rgb2id(o.color), color |-> o.color, taken |-> o.taken] :
        o \in get_color(offsets, cats, taken, cat_id)}

\* the category tables tried: things sharing a base color, stuff colors one
\* offset above and one clamped offset below it, a thing whose base is black, a
\* thing whose base is a stuff color
CategoryTables ==
    { (1 :> [id |-> 1, color |-> <<10, 250, 128>>, isthing |-> 1]) @@
      (2 :> [id |-> 2, color |-> <<10, 250, 128>>, isthing |-> 1]) @@
      (3 :> [id |-> 3, color |-> <<40, 250, 128>>, isthing |-> 0]) @@
      (4 :> [id |-> 4, color |-> <<0, 0, 0>>, isthing |-> 1]) @@
      (5 :> [id |-> 5, color |-> <<0, 250, 128>>, isthing |-> 0]),
      (1 :> [id |-> 1, color |-> <<200, 100, 50>>, isthing |-> 1]) @@
      (2 :> [id |-> 2, color |-> <<200, 100, 50>>, isthing |-> 0]) @@
      (3 :> [id |-> 3, color |-> <<0, 0, 0>>, isthing |-> 0]) }

\* how many IdGenerator calls a run makes
MaxCalls == 3

NoRet == [op |-> "none", cat_id |-> 0, color |-> <<>>, id |-> 0]

IdGenIdle ==
    /\ categories = <<>>
    /\ taken_colors = {}
    /\ calls = <<>>
    /\ ret = NoRet
    /\ rng_offsets = {}

\* id_generator = IdGenerator(categories)
InitIdGen ==
    /\ categories \in CategoryTables
    /\ taken_colors = InitTaken(categories)
    /\ calls = <<>>
    /\ ret = NoRet
    /\ rng_offsets \in RandomOffsetChoices

\* id_generator.get_color(cat_id)
GetColor(cat_id) ==
    /\ Len(calls) < MaxCalls
    /\ \E o \in get_color(rng_offsets, categories, taken_colors, cat_id) :
          /\ taken_colors' = o.taken
          /\ calls' = Append(calls, [cat_id |-> cat_id, color |-> o.color])
          /\ ret' = [op |-> "get_color", cat_id |-> cat_id, color |-> o.color, id |-> 0]
    /\ UNCHANGED <<categories, rng_offsets, codecVars, semVars, inputVars, exportVars>>

\* id_generator.get_id(cat_id)
GetId(cat_id) ==
    /\ Len(calls) < MaxCalls
    /\ \E o \in get_id(rng_offsets, categories, taken_colors, cat_id) :
          /\ taken_colors' = o.taken
          /\ calls' = Append(calls, [cat_id |-> cat_id, color |-> id2rgb(o.id)])
          /\ ret' = [op |-> "get_id", cat_id |-> cat_id, color |-> <<>>, id |-> o.id]
    /\ UNCHANGED <<categories, rng_offsets, codecVars, semVars, inputVars, exportVars>>

\* id_generator.get_id_and_color(cat_id)
GetIdAndColor(cat_id) ==
    /\ Len(calls) < MaxCalls
    /\ \E o \in get_id_and_color(rng_offsets, categories, taken_colors, cat_id) :
          /\ taken_colors' = o.taken
          /\ calls' = Append(calls, [cat_id |-> cat_id, color |-> o.color])
          /\ ret' = [op |-> "get_id_and_color", cat_id |-> cat_id, color |-> o.color,
                     id |-> o.id]
    /\ UNCHANGED <<categories, rng_offsets, codecVars, semVars, inputVars, exportVars>>

NextIdGen ==
    \/ \E cat_id \in DOMAIN categories : GetColor(cat_id)
    \/ \E cat_id \in DOMAIN categories : GetId(cat_id)
    \/ \E cat_id \in DOMAIN categories : GetIdAndColor(cat_id)

\* how many get_color calls a run of the step-by-step allocator completes
MaxLoopCalls == 2

\* get_color step by step, for the retry loop of lines 116-120.  While a call
\* is inside the loop, ret.op is "loop" and ret.cat_id its argument.
InLoop == ret.op = "loop"

\* id_generator.get_color(cat_id) up to its return at line 110 or 114, or up to
\* the while of line 116
EnterGetColor(cat_id) ==
    /\ ~InLoop
    /\ Len(calls) < MaxLoopCalls
    /\ LET category == categories[cat_id]
           base_color == category.color
       IN  IF category.isthing = 0
           THEN /\ ret' = [op |-> "get_color", cat_id |-> cat_id, color |-> category.color,
                           id |-> 0]
                /\ calls' = Append(calls, [cat_id |-> cat_id, color |-> category.color])
                /\ UNCHANGED taken_colors
           ELSE IF base_color \notin taken_colors
           THEN /\ taken_colors' = taken_colors \cup {base_color}
                /\ ret' = [op |-> "get_color", cat_id |-> cat_id, color |-> base_color,
                           id |-> 0]
                /\ calls' = Append(calls, [cat_id |-> cat_id, color |-> base_color])
           ELSE /\ ret' = [op |-> "loop", cat_id |-> cat_id, color |-> <<>>, id |-> 0]
                /\ UNCHANGED <<taken_colors, calls>>
    /\ UNCHANGED <<categories, rng_offsets, codecVars, semVars, inputVars, exportVars>>

\* one round of the while loop (lines 117-120) in which np.random.randint
\* yields the offsets off
RetryDraw(off) ==
    /\ InLoop
    /\ LET color == random_color(categories[ret.cat_id].color, off)
       IN  IF color \notin taken_colors
           THEN /\ taken_colors' = taken_colors \cup {color}
                /\ ret' = [op |-> "get_color", cat_id |-> ret.cat_id, color |-> color,
                           id |-> 0]
                /\ calls' = Append(calls, [cat_id |-> ret.cat_id, color |-> color])
           ELSE UNCHANGED <<taken_colors, ret, calls>>
    /\ UNCHANGED <<categories, rng_offsets, codecVars, semVars, inputVars, exportVars>>

\* the offsets of the three channels a round can draw
OffsetTriples == {<<a, b, c>> : a \in {-max_dist, 0, max_dist}, b \in {-max_dist, 0, max_dist},
                                c \in {-max_dist, 0, max_dist}}

NextRetry ==
    \/ \E cat_id \in DOMAIN categories : EnterGetColor(cat_id)
    \/ \E off \in OffsetTriples : off[1] \in rng_offsets /\ off[2] \in rng_offsets
                                   /\ off[3] \in rng_offsets /\ RetryDraw(off)

-----------------------------------------------------------------------------
(* Semantic raster: utils.py get_semantic_bitmap *)

\* max(xs, default=0) of a sequence of integers
RECURSIVE MaxOf(_)
MaxOf(xs) ==
    IF xs = <<>> THEN 0
    ELSE IF Len(xs) = 1 THEN xs[1]
    ELSE Max(xs[1], MaxOf(Tail(xs)))

\* the loop of lines 82-85: instance2semantic[a["id"]] = a["category_id"] + id_increment
RECURSIVE FillTable(_, _, _)
FillTable(table, anns, inc) ==
    IF anns = <<>> THEN table
    ELSE FillTable([table EXCEPT ![Head(anns).id] =
                        Head(anns).category_id + inc],
                   Tail(anns), inc)

\* instance2semantic as lines 79-86 build it: a table over 0 .. max annotation id
Instance2Semantic(anns, inc) ==
    LET size == MaxOf([k \in DOMAIN anns |-> anns[k].id]) + 1
    IN  FillTable([v \in 0 .. size - 1 |-> 0], anns, inc)

\* the values of a raster
Pixels(raster) == UNION {Range(raster[r]) : r \in DOMAIN raster}

\* get_semantic_bitmap(instance_bitmap, annotations, id_increment) for arguments that are not None (lines 79-89): the
\* fancy index instance2semantic[bitmap] raises IndexError when a pixel is not
\* an index of the table.
get_semantic_bitmap(instance_bitmap, anns, inc) ==
    LET table == Instance2Semantic(anns, inc)
        look(v) == table[v]
    IN  IF \E v \in Pixels(instance_bitmap) : v \notin DOMAIN table
        THEN [raised |-> TRUE, value |-> <<>>]
        ELSE [raised |-> FALSE, value |-> [r \in DOMAIN instance_bitmap |-> [c \in DOMAIN instance_bitmap[r] |-> look(instance_bitmap[r][c])]]]

\* the largest instance id of the rasters and annotations tried
MaxInstanceId == 3

SemRasters ==
    {<<<<a, b>>, <<c, d>>>> : a \in 0 .. MaxInstanceId, b \in 0 .. MaxInstanceId,
                              c \in 0 .. 1, d \in {0, MaxInstanceId}}
    \cup {<<<<a, b, c>>>> : a \in 0 .. MaxInstanceId, b \in 0 .. 1, c \in {0}}

SemCategoryIds == {0, 5}

SemAnnotation == [id : 1 .. MaxInstanceId, category_id : SemCategoryIds]

\* annotation lists of at most two annotations with different ids
SemAnnotationLists ==
    {<<>>} \cup {<<a>> : a \in SemAnnotation}
    \cup {p \in {<<a, b>> : a \in SemAnnotation, b \in SemAnnotation} :
              p[1].id # p[2].id}

SemIdle ==
    /\ sem_in = [has_bitmap |-> FALSE, bitmap |-> <<>>, has_annotations |-> FALSE,
                 annotations |-> <<>>, id_increment |-> 0]
    /\ sem_pc = "idle"
    /\ sem_out = <<>>

InitSemantic ==
    /\ sem_in \in
          [has_bitmap : {TRUE}, bitmap : SemRasters, has_annotations : {TRUE},
           annotations : SemAnnotationLists, id_increment : {0, 1}]
          \cup [has_bitmap : {FALSE}, bitmap : {<<>>}, has_annotations : {TRUE},
                annotations : {<<>>}, id_increment : {1}]
          \cup [has_bitmap : {TRUE}, bitmap : {<<<<1>>>>}, has_annotations : {FALSE},
                annotations : {<<>>}, id_increment : {1}]
    /\ sem_pc = "start"
    /\ sem_out = <<>>

\* get_semantic_bitmap(instance_bitmap, annotations, id_increment)
GetSemanticBitmap ==
    /\ sem_pc = "start"
    /\ IF ~sem_in.has_bitmap \/ ~sem_in.has_annotations
       THEN /\ sem_pc' = "returned_none"
            /\ sem_out' = <<>>
       ELSE LET r == get_semantic_bitmap(sem_in.bitmap, sem_in.annotations,
                                         sem_in.id_increment)
            IN  /\ sem_pc' = IF r.raised THEN "raised" ELSE "returned"
                /\ sem_out' = r.value
    /\ UNCHANGED <<sem_in, codecVars, idgenVars, inputVars, exportVars>>

NextSemantic == GetSemanticBitmap

-----------------------------------------------------------------------------
(* Preview palette and colorize: export.py COLORMAP, get_color, colorize *)

\* COLORMAP[k][0:3], k = 0 .. 35 (lines 40-77), as a 1-based sequence
COLORMAP ==
    << <<0, 113, 188>>, <<216, 82, 24>>, <<236, 176, 31>>, <<125, 46, 141>>,
       <<118, 171, 47>>, <<76, 189, 237>>, <<161, 19, 46>>, <<255, 0, 0>>,
       <<255, 127, 0>>, <<190, 190, 0>>, <<0, 255, 0>>, <<0, 0, 255>>,
       <<170, 0, 255>>, <<84, 84, 0>>, <<84, 170, 0>>, <<84, 255, 0>>,
       <<170, 84, 0>>, <<170, 170, 0>>, <<170, 255, 0>>, <<255, 84, 0>>,
       <<255, 170, 0>>, <<255, 255, 0>>, <<0, 84, 127>>, <<0, 170, 127>>,
       <<0, 255, 127>>, <<84, 0, 127>>, <<84, 84, 127>>, <<84, 170, 127>>,
       <<84, 255, 127>>, <<170, 0, 127>>, <<170, 84, 127>>, <<170, 170, 127>>,
       <<170, 255, 127>>, <<255, 0, 127>>, <<255, 84, 127>>, <<255, 170, 127>> >>

\* the module-level get_color(id): COLORMAP[id % len(COLORMAP)][0:3]
palette_color(id) == COLORMAP[(id % Len(COLORMAP)) + 1]

\* np.uint8(raster): every value reduced modulo 256
AsUint8(raster) ==
    LET one(v) == v % 256
    IN  [r \in DOMAIN raster |-> [c \in DOMAIN raster[r] |-> one(raster[r][c])]]

\* colorize(img, colormap) on a uint8 raster; has_colormap is "colormap is not
\* None" and colormap a 1-based sequence of colors.  id - 1 is computed in uint8
\* and id is never 0, so it is id - 1; colormap[id - 1] raises IndexError past
\* the end of the list.
colorize(img, has_colormap, colormap) ==
    LET indices == Pixels(img) \ {0}
        color(id) == IF has_colormap THEN colormap[(id - 1) + 1]
                     ELSE palette_color(id - 1)
        paint(v) == IF v = 0 THEN <<0, 0, 0>> ELSE color(v)
    IN  IF has_colormap /\ \E id \in indices : id - 1 >= Len(colormap)
        THEN [raised |-> TRUE, value |-> <<>>]
        ELSE [raised |-> FALSE, value |-> [r \in DOMAIN img |-> [c \in DOMAIN img[r] |-> paint(img[r][c])]]]

-----------------------------------------------------------------------------
(* Mask geometry: skimage.measure.regionprops as the emitters use it *)

\* the pixels (row, column), 0-based, that hold the label
LabelPixels(raster, label) ==
    {rc \in UNION {{<<r - 1, c - 1>> : c \in DOMAIN raster[r]} : r \in DOMAIN raster} :
        raster[rc[1] + 1][rc[2] + 1] = label}

\* the keys of {region.label: region for region in regionprops(raster)}: the
\* non-zero values of the raster
RegionLabels(raster) == Pixels(raster) \ {0}

SetMin(S) == CHOOSE x \in S : \A y \in S : x <= y

SetMax(S) == CHOOSE x \in S : \A y \in S : x >= y

\* region.bbox: (min_row, min_col, max_row, max_col), the maxima half-open
RegionBBox(raster, label) ==
    LET px == LabelPixels(raster, label)
        rows == {rc[1] : rc \in px}
        cols == {rc[2] : rc \in px}
    IN  <<SetMin(rows), SetMin(cols), SetMax(rows) + 1, SetMax(cols) + 1>>

\* region.area: the number of pixels of the label
RegionArea(raster, label) == Cardinality(LabelPixels(raster, label))

\* the box written as [y, x, height, width]
coco_bbox_rows_first(bbox) == <<bbox[1], bbox[2], bbox[3] - bbox[1], bbox[4] - bbox[2]>>

\* y0, x0, y1, x1 = bbox; "bbox": [x0, y0, x1 - x0, y1 - y0] (lines 299-300 and
\* 320, 465-466 and 474)
coco_bbox(bbox) == <<bbox[2], bbox[1], bbox[4] - bbox[2], bbox[3] - bbox[1]>>

\* an emitter that takes every annotation to have a region
has_no_region_never(instance, raster) == FALSE

\* instance["id"] not in regions (lines 286, 449)
has_no_region(instance, raster) == instance.id \notin RegionLabels(raster)

\* np.array(bitmap) == instance["id"]
InstanceMask(raster, id) ==
    LET one(v) == IF v = id THEN 1 ELSE 0
    IN  [r \in DOMAIN raster |-> [c \in DOMAIN raster[r] |-> one(raster[r][c])]]

-----------------------------------------------------------------------------
(* The dataset handed to an export: the samples and categories tried *)

SegmentationTypes == {"segmentation-bitmap", "segmentation-bitmap-highres"}

TaskTypes == SegmentationTypes \cup {"bboxes", "vector", "keypoints"}

ImageFormats == {"instance", "instance-color", "semantic", "semantic-color"}

ExportFormats == {"coco-panoptic", "coco-instance", "yolo"} \cup ImageFormats

NoPoints == <<<<0, 0>>, <<0, 0>>>>

Segment(id, category_id) ==
    [id |-> id, category_id |-> category_id, type |-> "segment", points |-> NoPoints]

Shape(id, category_id, type, x0, y0, x1, y1) ==
    [id |-> id, category_id |-> category_id, type |-> type,
     points |-> <<<<x0, y0>>, <<x1, y1>>>>]

\* a sample with a label: a raster and its annotations
SegSample(raster, anns) ==
    [has_annotations |-> TRUE, annotations |-> anns, has_bitmap |-> TRUE,
     segmentation_bitmap |-> raster, width |-> Len(raster[1]), height |-> Len(raster)]

\* a sample of a vector dataset: annotations with points, no raster
VecSample(anns, width, height) ==
    [has_annotations |-> TRUE, annotations |-> anns, has_bitmap |-> FALSE,
     segmentation_bitmap |-> <<>>, width |-> width, height |-> height]

\* a sample that has no label: its annotations (and raster) are None
UnlabeledSample ==
    [has_annotations |-> FALSE, annotations |-> <<>>, has_bitmap |-> FALSE,
     segmentation_bitmap |-> <<>>, width |-> 100, height |-> 200]

\* a 5 x 5 raster with one instance of 12 pixels: rows 2 to 4, columns 1 to 4
\* (0-based, inclusive)
BlockRaster ==
    [r \in 1 .. 5 |-> [c \in 1 .. 5 |-> IF r \in 3 .. 5 /\ c \in 2 .. 5 THEN 1 ELSE 0]]

\* samples of a segmentation dataset: unlabeled; two instances of two
\* categories; an annotation with no pixels followed by one with pixels; two
\* instances of one category; one instance of 12 pixels; instance ids past the
\* palette's length and past one byte
SegSamples ==
    { UnlabeledSample,
      SegSample(<<<<1, 1>>, <<0, 2>>>>, <<Segment(1, 1), Segment(2, 2)>>),
      SegSample(<<<<2, 0>>, <<2, 0>>>>, <<Segment(1, 3), Segment(2, 1)>>),
      SegSample(<<<<1, 2, 2>>>>, <<Segment(1, 1), Segment(2, 1)>>),
      SegSample(BlockRaster, <<Segment(1, 1)>>),
      SegSample(<<<<256, 0, 37, 257>>>>, <<Segment(37, 1), Segment(256, 2), Segment(257, 2)>>) }

\* samples of a bounding-box dataset: unlabeled; an empty annotation list; one
\* box; a box given by its corners in reverse order on a 3 x 7 image; a box
\* whose second corner is outside the image
BoxSamples ==
    { UnlabeledSample,
      VecSample(<<>>, 100, 200),
      VecSample(<<Shape(1, 1, "bbox", 10, 20, 50, 80)>>, 100, 200),
      VecSample(<<Shape(1, 2, "bbox", 2, 5, 1, 2), Shape(2, 1, "bbox", 0, 0, 3, 7)>>, 3, 7),
      VecSample(<<Shape(1, 1, "bbox", 90, 100, 120, 150)>>, 100, 200) }

\* a sample whose second bbox annotation has three points instead of two
\* corners, between two well-formed boxes
BrokenBoxSample ==
    VecSample(<<Shape(1, 1, "bbox", 10, 20, 50, 80),
                [id |-> 2, category_id |-> 2, type |-> "bbox",
                 points |-> <<<<0, 0>>, <<10, 0>>, <<10, 10>>>>],
                Shape(3, 1, "bbox", 0, 0, 100, 200)>>, 100, 200)

\* a vector dataset also holds polygons and keypoints between its boxes, and
\* may hold a malformed box
VectorSamples ==
    BoxSamples \cup
    { VecSample(<<Shape(1, 2, "polygon", 1, 1, 9, 9), Shape(2, 2, "bbox", 0, 100, 100, 200),
                  Shape(3, 1, "point", 5, 5, 5, 5)>>, 100, 200),
      BrokenBoxSample }

KeypointSamples ==
    { UnlabeledSample, VecSample(<<Shape(1, 1, "point", 5, 5, 5, 5)>>, 100, 200) }

SamplesOf(ttype) ==
    IF ttype \in SegmentationTypes THEN SegSamples
    ELSE IF ttype = "bboxes" THEN BoxSamples
    ELSE IF ttype = "vector" THEN VectorSamples
    ELSE KeypointSamples

\* the largest number of samples of a dataset
MaxSamples == 2

DatasetsOf(ttype) ==
    UNION {[1 .. n -> SamplesOf(ttype)] : n \in 0 .. MaxSamples}

\* dataset.categories: a thing with a color, a stuff with the color one offset
\* away, a thing with no color of its own (it gets the palette's)
DatasetCategories ==
    << [id |-> 1, has_color |-> TRUE, color |-> <<10, 250, 128>>,
        declares_instances |-> TRUE, has_instances |-> TRUE],
       [id |-> 2, has_color |-> TRUE, color |-> <<40, 250, 128>>,
        declares_instances |-> FALSE, has_instances |-> FALSE],
       [id |-> 3, has_color |-> FALSE, color |-> <<>>,
        declares_instances |-> TRUE, has_instances |-> TRUE] >>

-----------------------------------------------------------------------------
(* export_dataset and the emitters: state *)

ExportIdle ==
    /\ export_format = "none"
    /\ task_type = "none"
    /\ dataset = <<>>
    /\ ds_categories = <<>>
    /\ id_increment = 0
    /\ entry = "none"
    /\ ex_pc = "off"
    /\ ex_error = "none"
    /\ i = 0
    /\ n_read = 0
    /\ images = <<>>
    /\ annotations = <<>>
    /\ annotation_id = 0
    /\ files = <<>>

\* the id_increment argument: the default 1, and 0 for the two formats that
\* use it (it is ignored by the others)
IdIncrements(format) == IF format \in {"semantic", "semantic-color"} THEN {0, 1} ELSE {1}

InitExport ==
    /\ export_format \in ExportFormats
    /\ task_type \in TaskTypes
    /\ dataset \in DatasetsOf(task_type)
    /\ ds_categories = DatasetCategories
    /\ id_increment \in IdIncrements(export_format)
    /\ entry = "none"
    /\ ex_pc = "idle"
    /\ ex_error = "none"
    /\ i = 0
    /\ n_read = 0
    /\ images = <<>>
    /\ annotations = <<>>
    /\ annotation_id = 0
    /\ files = <<>>
    /\ categories = <<>>
    /\ taken_colors = {}
    /\ calls = <<>>
    /\ ret = NoRet
    /\ rng_offsets = ExportRandomOffsets

\* the emitter export_dataset hands a format to
EmitterOf(format) ==
    IF format \in ImageFormats THEN "export_image" ELSE
    IF format = "coco-instance" THEN "export_coco_instance" ELSE
    IF format = "coco-panoptic" THEN "export_coco_panoptic" ELSE "export_yolo"

\* an emitter that takes no sample to be unlabeled
annotations_is_none_never(sample) == FALSE

\* sample["annotations"] is None
annotations_is_none(sample) == ~sample.has_annotations

\* an image entry numbered from 0
ImageEntryZeroBased(image_id, index, sample) ==
    [id |-> index, file_name |-> index, height |-> sample.height,
     width |-> sample.width]

\* the entry of the images list (lines 252-265, 416-425)
ImageEntry(image_id, index, sample) ==
    [id |-> image_id, file_name |-> index, height |-> sample.height,
     width |-> sample.width]

\* the exception an emitter raised ends the export where it stands
Raise(exception) ==
    /\ ex_pc' = "error"
    /\ ex_error' = exception

\* the loop goes on with the next index
Continue ==
    /\ i' = i + 1
    /\ UNCHANGED <<ex_pc, ex_error>>

-----------------------------------------------------------------------------
(* utils.py export_dataset, and the first lines of each emitter *)

\* export_dataset that checks the task type for the coco formats and yolo only
DispatcherAcceptsImages(format, ttype) ==
    IF format = "yolo" THEN ttype \in {"vector", "bboxes"}
    ELSE IF format \in ImageFormats THEN TRUE
    ELSE ttype \in SegmentationTypes

\* the task types export_dataset lets through for a format (lines 120-157)
DispatcherAccepts(format, ttype) ==
    IF format = "yolo" THEN ttype \in {"vector", "bboxes"}
    ELSE ttype \in SegmentationTypes

\* the check export_yolo makes itself before its loop (lines 628-629)
YoloAccepts(ttype) == ttype \in {"vector", "bboxes"}

\* the Category objects export_coco_panoptic builds (lines 384-401), as
\* categories_dict: color is category["color"][:3] or the palette's color of the
\* category's position, isthing is int(category["has_instances"]) or 0
CategoriesDict(cats) ==
    LET pos(id) == SetMax({k \in DOMAIN cats : cats[k].id = id})
        parse(k) ==
            [id |-> cats[k].id,
             color |-> IF cats[k].has_color THEN cats[k].color ELSE palette_color(k - 1),
             isthing |-> IF cats[k].declares_instances /\ cats[k].has_instances
                         THEN 1 ELSE 0]
    IN  [id \in {cats[k].id : k \in DOMAIN cats} |-> parse(pos(id))]

\* what an emitter sets up before its loop; export_coco_panoptic also builds
\* its categories and IdGenerator(categories_dict)
StartEmitter(emitter) ==
    /\ ex_pc' = "loop"
    /\ ex_error' = "none"
    /\ i' = 0
    /\ images' = <<>>
    /\ annotations' = <<>>
    /\ annotation_id' = IF emitter = "export_coco_instance" THEN 1 ELSE 0
    /\ IF emitter = "export_coco_panoptic"
       THEN /\ categories' = CategoriesDict(ds_categories)
            /\ taken_colors' = InitTaken(CategoriesDict(ds_categories))
       ELSE UNCHANGED <<categories, taken_colors>>
    /\ UNCHANGED <<n_read, files, calls, ret, rng_offsets>>

\* exporting through export_dataset(dataset, export_folder, export_format, id_increment)
ExportDataset ==
    /\ ex_pc = "idle"
    /\ entry' = "export_dataset"
    /\ IF ~DispatcherAccepts(export_format, task_type)
       THEN /\ Raise("ValueError")
            /\ UNCHANGED <<i, n_read, images, annotations, annotation_id, files,
                           idgenVars>>
       ELSE StartEmitter(EmitterOf(export_format))
    /\ UNCHANGED <<inputVars, codecVars, semVars>>

\* calling export_coco_instance(dataset, export_folder) itself
CallExportCocoInstance ==
    /\ ex_pc = "idle"
    /\ export_format = "coco-instance"
    /\ entry' = "direct"
    /\ StartEmitter("export_coco_instance")
    /\ UNCHANGED <<inputVars, codecVars, semVars>>

\* calling export_coco_panoptic(dataset, export_folder) itself
CallExportCocoPanoptic ==
    /\ ex_pc = "idle"
    /\ export_format = "coco-panoptic"
    /\ entry' = "direct"
    /\ StartEmitter("export_coco_panoptic")
    /\ UNCHANGED <<inputVars, codecVars, semVars>>

\* calling export_image(dataset, export_folder, export_format, id_increment) itself
CallExportImage ==
    /\ ex_pc = "idle"
    /\ export_format \in ImageFormats
    /\ entry' = "direct"
    /\ StartEmitter("export_image")
    /\ UNCHANGED <<inputVars, codecVars, semVars>>

\* calling export_yolo(dataset, export_folder) itself
CallExportYolo ==
    /\ ex_pc = "idle"
    /\ export_format = "yolo"
    /\ entry' = "direct"
    /\ IF ~YoloAccepts(task_type)
       THEN /\ Raise("ValueError")
            /\ UNCHANGED <<i, n_read, images, annotations, annotation_id, files,
                           idgenVars>>
       ELSE StartEmitter("export_yolo")
    /\ UNCHANGED <<inputVars, codecVars, semVars>>

-----------------------------------------------------------------------------
(* export.py export_coco_instance *)

\* the body of "for instance in sample['annotations']" (lines 272-345), folded
\* over the instances left; acc is [annotations, annotation_id, error]
RECURSIVE CocoInstanceAnnotations(_, _, _, _, _)
CocoInstanceAnnotations(instances, raster, ttype, image_id, acc) ==
    IF instances = <<>> THEN acc
    ELSE
        LET instance == Head(instances)
            bbox == RegionBBox(raster, instance.id)
            points == instance.points
            seg == [id |-> acc.annotation_id, image_id |-> image_id,
                    category_id |-> instance.category_id,
                    bbox |-> coco_bbox(bbox),
                    has_segmentation |-> TRUE,
                    segmentation |-> InstanceMask(raster, instance.id),
                    area |-> RegionArea(raster, instance.id), iscrowd |-> 0]
            box == [id |-> acc.annotation_id, image_id |-> image_id,
                    category_id |-> instance.category_id,
                    bbox |-> <<points[1][1], points[1][2],
                               points[2][1] - points[1][1],
                               points[2][2] - points[1][2]>>,
                    has_segmentation |-> FALSE, segmentation |-> <<>>,
                    area |-> 0, iscrowd |-> 0]
            add(a) == [acc EXCEPT !.annotations = Append(acc.annotations, a),
                                  !.annotation_id = acc.annotation_id + 1]
        IN  IF ttype \in SegmentationTypes
            THEN IF has_no_region(instance, raster)
                 THEN CocoInstanceAnnotations(Tail(instances), raster, ttype, image_id, acc)
                 ELSE IF instance.id \notin RegionLabels(raster)
                 THEN \* line 297: regions[instance["id"]]
                      [acc EXCEPT !.error = "KeyError"]
                 ELSE CocoInstanceAnnotations(Tail(instances), raster, ttype, image_id,
                                              add(seg))
            ELSE IF ttype = "bboxes"
            THEN CocoInstanceAnnotations(Tail(instances), raster, ttype, image_id, add(box))
            ELSE [acc EXCEPT !.error = "AssertionError"]

\* one round of the loop of export_coco_instance (lines 244-345)
CocoInstanceSample ==
    /\ ex_pc = "loop"
    /\ EmitterOf(export_format) = "export_coco_instance"
    /\ i < Len(dataset)
    /\ n_read' = n_read + 1
    /\ LET sample == dataset[i + 1]
           image_id == i + 1
           r == CocoInstanceAnnotations(sample.annotations, sample.segmentation_bitmap,
                    task_type, image_id,
                    [annotations |-> annotations, annotation_id |-> annotation_id,
                     error |-> "none"])
       IN  IF annotations_is_none(sample)
           THEN /\ Continue
                /\ UNCHANGED <<images, annotations, annotation_id>>
           ELSE /\ images' = Append(images, ImageEntry(image_id, i, sample))
                /\ IF ~sample.has_bitmap
                   THEN \* line 269: np.array(sample["segmentation_bitmap"], np.uint32)
                        /\ Raise("TypeError")
                        /\ UNCHANGED <<i, annotations, annotation_id>>
                   ELSE /\ annotations' = r.annotations
                        /\ annotation_id' = r.annotation_id
                        /\ IF r.error # "none"
                           THEN Raise(r.error) /\ UNCHANGED i
                           ELSE Continue
    /\ UNCHANGED <<entry, files, inputVars, idgenVars, codecVars, semVars>>

\* after the loop: json.dump of the document (lines 347-366)
CocoInstanceFinish ==
    /\ ex_pc = "loop"
    /\ EmitterOf(export_format) = "export_coco_instance"
    /\ i = Len(dataset)
    /\ files' = Append(files, [kind |-> "json", sample |-> 0,
                               content |-> [categories |-> ds_categories,
                                            images |-> images,
                                            annotations |-> annotations]])
    /\ ex_pc' = "done"
    /\ UNCHANGED <<entry, ex_error, i, n_read, images, annotations, annotation_id,
                   inputVars, idgenVars, codecVars, semVars>>

-----------------------------------------------------------------------------
(* export.py export_coco_panoptic *)

\* an assignment that colors the whole image instead of the mask
PaintAll(label, raster, id, color) ==
    [r \in DOMAIN label |-> [c \in DOMAIN label[r] |-> color]]

\* panoptic_label[instance_mask] = color (line 460)
Paint(label, raster, id, color) ==
    [r \in DOMAIN label |->
        [c \in DOMAIN label[r] |-> IF raster[r][c] = id THEN color ELSE label[r][c]]]

\* np.zeros((height, width, 3), np.uint8)
BlackImage(raster) ==
    LET one(v) == <<0, 0, 0>>
    IN  [r \in DOMAIN raster |-> [c \in DOMAIN raster[r] |-> one(raster[r][c])]]

\* the body of "for instance in sample['annotations']" (lines 444-479), folded
\* over the instances left: every outcome [taken, panoptic_label, segments_info,
\* error] the draws of the color allocator allow
RECURSIVE PanopticInstances(_, _, _, _, _)
PanopticInstances(instances, raster, offsets, cats, acc) ==
    IF instances = <<>> THEN {acc}
    ELSE
        LET instance == Head(instances)
            bbox == RegionBBox(raster, instance.id)
            info(o) == [id |-> o.id, category_id |-> instance.category_id,
                        bbox |-> coco_bbox(bbox),
                        area |-> RegionArea(raster, instance.id), iscrowd |-> 0]
            step(o) ==
                IF has_no_region(instance, raster)
                THEN [acc EXCEPT !.taken = o.taken]
                ELSE IF instance.id \notin RegionLabels(raster)
                THEN \* line 463: regions[instance["id"]]
                     [acc EXCEPT !.taken = o.taken, !.error = "KeyError"]
                ELSE [acc EXCEPT
                        !.taken = o.taken,
                        !.panoptic_label = Paint(acc.panoptic_label, raster, instance.id,
                                                 o.color),
                        !.segments_info = Append(acc.segments_info, info(o))]
        IN  IF acc.error # "none" THEN {acc}
            ELSE IF instance.category_id \notin DOMAIN cats
            THEN {[acc EXCEPT !.error = "KeyError"]}
            ELSE UNION {PanopticInstances(Tail(instances), raster, offsets, cats, step(o)) :
                           o \in get_id_and_color(offsets, cats, acc.taken,
                                                  instance.category_id)}

\* one round of the loop of export_coco_panoptic (lines 407-508)
CocoPanopticSample ==
    /\ ex_pc = "loop"
    /\ EmitterOf(export_format) = "export_coco_panoptic"
    /\ i < Len(dataset)
    /\ n_read' = n_read + 1
    /\ LET sample == dataset[i + 1]
           image_id == i + 1
           raster == sample.segmentation_bitmap
       IN  IF annotations_is_none(sample)
           THEN /\ Continue
                /\ UNCHANGED <<images, annotations, files, taken_colors>>
           ELSE /\ images' = Append(images, ImageEntry(image_id, i, sample))
                /\ IF ~sample.has_bitmap
                   THEN \* line 431: sample["segmentation_bitmap"].size
                        /\ Raise("AttributeError")
                        /\ UNCHANGED <<i, annotations, files, taken_colors>>
                   ELSE \E out \in PanopticInstances(sample.annotations, raster,
                                      rng_offsets, categories,
                                      [taken |-> taken_colors,
                                       panoptic_label |-> BlackImage(raster),
                                       segments_info |-> <<>>, error |-> "none"]) :
                          /\ taken_colors' = out.taken
                          /\ IF out.error # "none"
                             THEN /\ Raise(out.error)
                                  /\ UNCHANGED <<i, annotations, files>>
                             ELSE /\ annotations' =
                                        Append(annotations,
                                               [segments_info |-> out.segments_info,
                                                file_name |-> i, image_id |-> image_id])
                                  /\ files' = Append(files,
                                        [kind |-> "coco-panoptic.png", sample |-> i,
                                         content |-> out.panoptic_label])
                                  /\ Continue
    /\ UNCHANGED <<entry, annotation_id, categories, calls, ret, rng_offsets,
                   inputVars, codecVars, semVars>>

\* after the loop: json.dump of the document (lines 520-539)
CocoPanopticFinish ==
    /\ ex_pc = "loop"
    /\ EmitterOf(export_format) = "export_coco_panoptic"
    /\ i = Len(dataset)
    /\ files' = Append(files, [kind |-> "json", sample |-> 0,
                               content |-> [categories |-> categories,
                                            images |-> images,
                                            annotations |-> annotations]])
    /\ ex_pc' = "done"
    /\ UNCHANGED <<entry, ex_error, i, n_read, images, annotations, annotation_id,
                   inputVars, idgenVars, codecVars, semVars>>

-----------------------------------------------------------------------------
(* export.py export_image *)

\* the categories list of export_image (lines 550-562), reduced to the colormap
\* [c["color"] for c in categories] that semantic-color hands to colorize
ImageColormap(cats) ==
    [k \in DOMAIN cats |->
        IF cats[k].has_color THEN cats[k].color ELSE palette_color(k - 1)]

\* what one sample of a flat-image export writes (lines 577-621):
\* [error, kind, content].  The raster files are saved through img_as_ubyte,
\* which leaves the uint8 previews as they are; content is the array handed to it.
ImageFile(format, sample, cats, inc) ==
    LET raster == sample.segmentation_bitmap
        sem == get_semantic_bitmap(raster, sample.annotations, inc)
        preview == colorize(AsUint8(raster), FALSE, <<>>)
        sem_preview == colorize(AsUint8(sem.value), TRUE, ImageColormap(cats))
        file(kind, content) == [error |-> "none", kind |-> kind, content |-> content]
        fail(e) == [error |-> e, kind |-> "none", content |-> <<>>]
    IN  IF format = "instance"
        THEN IF ~sample.has_bitmap THEN fail("AttributeError")
             ELSE file("instance.png", raster)
        ELSE IF format = "instance-color"
        THEN IF ~sample.has_bitmap THEN fail("TypeError")
             ELSE file("instance_colored.png", preview.value)
        ELSE IF format = "semantic"
        THEN IF ~sample.has_bitmap THEN fail("TypeError")
             ELSE IF sem.raised THEN fail("IndexError")
             ELSE file("semantic.png", sem.value)
        ELSE IF ~sample.has_bitmap THEN fail("TypeError")
             ELSE IF sem.raised \/ sem_preview.raised THEN fail("IndexError")
             ELSE file("semantic_colored.png", sem_preview.value)

\* one round of the loop of export_image (lines 564-621)
ImageSample ==
    /\ ex_pc = "loop"
    /\ EmitterOf(export_format) = "export_image"
    /\ i < Len(dataset)
    /\ n_read' = n_read + 1
    /\ LET sample == dataset[i + 1]
           f == ImageFile(export_format, sample, ds_categories, id_increment)
       IN  IF annotations_is_none(sample)
           THEN Continue /\ UNCHANGED files
           ELSE IF f.error # "none"
           THEN Raise(f.error) /\ UNCHANGED <<i, files>>
           ELSE /\ files' = Append(files, [kind |-> f.kind, sample |-> i,
                                           content |-> f.content])
                /\ Continue
    /\ UNCHANGED <<entry, images, annotations, annotation_id, inputVars, idgenVars,
                   codecVars, semVars>>

\* after the loop: return dataset.image_dir (lines 623-624)
ImageFinish ==
    /\ ex_pc = "loop"
    /\ EmitterOf(export_format) = "export_image"
    /\ i = Len(dataset)
    /\ ex_pc' = "done"
    /\ UNCHANGED <<entry, ex_error, i, n_read, images, annotations, annotation_id, files,
                   inputVars, idgenVars, codecVars, semVars>>

-----------------------------------------------------------------------------
(* export.py export_yolo *)

Abs(x) == IF x < 0 THEN -x ELSE x

RECURSIVE GCD(_, _)
GCD(a, b) == IF b = 0 THEN a ELSE GCD(b, a % b)

\* Fractions <<numerator, denominator>>, denominator > 0, stand for the floats
\* of the normalisation: their rounding error is far below half a unit of the
\* sixth decimal that the line keeps.
Frac(a, b) == <<a, b>>

FracAdd(p, q) == <<p[1] * q[2] + q[1] * p[2], p[2] * q[2]>>

FracSub(p, q) == <<p[1] * q[2] - q[1] * p[2], p[2] * q[2]>>

FracHalf(p) == <<p[1], 2 * p[2]>>

FracAbs(p) == <<Abs(p[1]), p[2]>>

\* "{:.6f}".format(value): the value rounded to six decimals (ties to even), as
\* its number of millionths
Format6(p) ==
    LET g == GCD(Abs(p[1]), p[2])
        n == Abs(p[1]) \div g
        d == p[2] \div g
        whole == n \div d
        scaled == (n % d) * 1000000
        q == scaled \div d
        r == scaled % d
        up == IF 2 * r > d \/ (2 * r = d /\ q % 2 = 1) THEN 1 ELSE 0
        millionths == whole * 1000000 + q + up
    IN  IF p[1] < 0 THEN -millionths ELSE millionths

\* the line written for one bbox annotation (lines 654-673)
yolo_line(annotation, image_width, image_height) ==
    LET x0 == Frac(annotation.points[1][1], image_width)
        x1 == Frac(annotation.points[2][1], image_width)
        y0 == Frac(annotation.points[1][2], image_height)
        y1 == Frac(annotation.points[2][2], image_height)
        x_center == FracHalf(FracAdd(x0, x1))
        y_center == FracHalf(FracAdd(y0, y1))
        width == FracAbs(FracSub(x1, x0))
        height == FracAbs(FracSub(y1, y0))
    IN  [category_id |-> annotation.category_id,
         x_center |-> Format6(x_center), y_center |-> Format6(y_center),
         width |-> Format6(width), height |-> Format6(height)]

\* the loop of lines 652-673 over the annotations left, the file being open:
\* acc.lines are the lines written to the file so far.  A bbox annotation
\* whose points are not two corners fails the unpacking of line 655 with
\* ValueError, and the lines written before it stay in the file.
RECURSIVE YoloLines(_, _, _, _)
YoloLines(anns, image_width, image_height, acc) ==
    IF anns = <<>> THEN acc
    ELSE IF Head(anns).type = "bbox"
    THEN IF Len(Head(anns).points) # 2
         THEN [acc EXCEPT !.error = "ValueError"]
         ELSE YoloLines(Tail(anns), image_width, image_height,
                        [acc EXCEPT !.lines =
                            Append(acc.lines,
                                   yolo_line(Head(anns), image_width, image_height))])
    ELSE YoloLines(Tail(anns), image_width, image_height, acc)

\* the test of lines 639-643: annotations present, not None and not empty
yolo_has_annotations(sample) ==
    ~annotations_is_none(sample) /\ Len(sample.annotations) > 0

\* one round of the loop of export_yolo (lines 636-673)
YoloSample ==
    /\ ex_pc = "loop"
    /\ EmitterOf(export_format) = "export_yolo"
    /\ i < Len(dataset)
    /\ n_read' = n_read + 1
    /\ LET sample == dataset[i + 1]
           r == YoloLines(sample.annotations, sample.width, sample.height,
                          [lines |-> <<>>, error |-> "none"])
       IN  IF yolo_has_annotations(sample)
           THEN /\ files' = Append(files,
                                [kind |-> "txt", sample |-> i, content |-> r.lines])
                /\ IF r.error # "none"
                   THEN Raise(r.error) /\ UNCHANGED i
                   ELSE Continue
           ELSE /\ UNCHANGED files
                /\ Continue
    /\ UNCHANGED <<entry, images, annotations, annotation_id, inputVars, idgenVars,
                   codecVars, semVars>>

\* after the loop: return dataset.image_dir (lines 675-676)
YoloFinish ==
    /\ ex_pc = "loop"
    /\ EmitterOf(export_format) = "export_yolo"
    /\ i = Len(dataset)
    /\ ex_pc' = "done"
    /\ UNCHANGED <<entry, ex_error, i, n_read, images, annotations, annotation_id, files,
                   inputVars, idgenVars, codecVars, semVars>>

-----------------------------------------------------------------------------
(* Specifications *)

\* an export, through export_dataset or through an emitter called directly
Init == CodecIdle /\ SemIdle /\ InitExport

Next ==
    \/ ExportDataset
    \/ CallExportCocoInstance
    \/ CallExportCocoPanoptic
    \/ CallExportImage
    \/ CallExportYolo
    \/ CocoInstanceSample
    \/ CocoInstanceFinish
    \/ CocoPanopticSample
    \/ CocoPanopticFinish
    \/ ImageSample
    \/ ImageFinish
    \/ YoloSample
    \/ YoloFinish

Spec == Init /\ [][Next]_vars

\* the codec applied to an id or an array of ids
CodecInit == InitCodec /\ IdGenIdle /\ SemIdle /\ ExportIdle

SpecCodec == CodecInit /\ [][NextCodec]_vars

\* an IdGenerator driven call by call
IdGenInit == CodecIdle /\ InitIdGen /\ SemIdle /\ ExportIdle

SpecIdGen == IdGenInit /\ [][NextIdGen]_vars

\* get_semantic_bitmap applied to a raster and an annotation list
SemanticInit == CodecIdle /\ IdGenIdle /\ InitSemantic /\ ExportIdle

SpecSemantic == SemanticInit /\ [][NextSemantic]_vars

\* bitmap2file applied to a raster, and extract_bitmap to the file it returned
BitmapInit == InitBitmap /\ IdGenIdle /\ SemIdle /\ ExportIdle

SpecBitmap == BitmapInit /\ [][NextBitmap]_vars

\* the allocator with get_color run round by round; every triple of offsets the
\* run can draw is drawn again and again (np.random.randint is uniform)
RetryFairness ==
    \A off \in OffsetTriples :
        WF_vars(off[1] \in rng_offsets /\ off[2] \in rng_offsets /\ off[3] \in rng_offsets
                    /\ RetryDraw(off))

SpecRetry == IdGenInit /\ [][NextRetry]_vars /\ RetryFairness

-----------------------------------------------------------------------------
(* Properties *)

\* ---- C1 (SpecCodec) ----
IdLimit == 256 * 256 * 256

\* the bytes the claim gives for id2rgb(x)
ClaimedRgb(x) == <<x % 256, (x \div 256) % 256, (x \div 65536) % 256>>

IsThingCall(c) == categories[c.cat_id].isthing # 0

ThingCalls == SelectSeq(calls, IsThingCall)

\* black and the configured color of every stuff category
ReservedColors ==
    {<<0, 0, 0>>}
    \cup {categories[k].color : k \in {x \in DOMAIN categories : categories[x].isthing = 0}}

\* C2: the colors returned by get_color / get_id / get_id_and_color for thing
\* categories are pairwise distinct, and none is black or the color of a stuff
\* category.
C2_ThingColorsDistinct ==
    /\ \A a \in DOMAIN ThingCalls : \A b \in DOMAIN ThingCalls :
          a # b => ThingCalls[a].color # ThingCalls[b].color
    /\ \A a \in DOMAIN ThingCalls : ThingCalls[a].color \notin ReservedColors

\* two calls for one thing category, then one for a category with the same base
C2_Witness ==
    /\ Len(calls) = 3
    /\ calls[1].cat_id = 1 /\ calls[2].cat_id = 1 /\ calls[3].cat_id = 2
    /\ categories[1].color = categories[2].color
    /\ categories[1].isthing = 1 /\ categories[2].isthing = 1
    /\ ret.op = "get_id"

\* C3: a call for a category with isthing == 0 returns that category's
\* configured color and leaves taken_colors as it was.
C3_StuffColorFixed ==
    [][(Len(calls') = Len(calls) + 1 /\ categories[ret'.cat_id].isthing = 0)
        => /\ calls'[Len(calls')].color = categories[ret'.cat_id].color
           /\ ret'.op = "get_color" => ret'.color = categories[ret'.cat_id].color
           /\ taken_colors' = taken_colors]_vars

\* a stuff color asked for twice, with a thing color allocated in between
C3_Witness ==
    /\ Len(calls) = 3
    /\ calls[1].cat_id = 3 /\ calls[2].cat_id = 1 /\ calls[3].cat_id = 3
    /\ categories[3].isthing = 0 /\ categories[1].isthing = 1
    /\ ret.op = "get_color"
    /\ ret.color = categories[3].color
    /\ calls[1].color = calls[3].color

\* ---- C4 (SpecSemantic) ----
\* the value the claim gives a pixel with instance id v
ClaimedSemantic(v) ==
    LET hits == {k \in DOMAIN sem_in.annotations : sem_in.annotations[k].id = v}
    IN  IF v = 0 \/ hits = {} THEN 0
        ELSE sem_in.annotations[CHOOSE k \in hits : TRUE].category_id
             + sem_in.id_increment

\* C4: for every instance raster and annotation list, get_semantic_bitmap
\* returns a raster of the same shape whose pixel with instance id v holds
\* category_id + id_increment of the annotation with id v, and 0 when v is 0 or
\* no annotation has id v; it never fails.
C4_SemanticLookup ==
    (sem_pc \notin {"start", "idle"} /\ sem_in.has_bitmap /\ sem_in.has_annotations)
        => /\ sem_pc = "returned"
           /\ sem_out = [r \in DOMAIN sem_in.bitmap |->
                         [c \in DOMAIN sem_in.bitmap[r] |-> ClaimedSemantic(sem_in.bitmap[r][c])]]

\* ---- C5 (Spec) ----
\* C5: in every emitter a sample whose annotations are None adds no image
\* entry, no annotation entry and no file, raises no error, and the loop goes
\* on to the next sample; an export that returns has read every sample.
C5_NullSampleSkipped ==
    [][/\ (ex_pc = "loop" /\ n_read' = n_read + 1 /\ ~dataset[i + 1].has_annotations)
            => /\ images' = images
               /\ annotations' = annotations
               /\ files' = files
               /\ ex_pc' = "loop" /\ ex_error' = "none"
               /\ i' = i + 1
       /\ ex_pc' = "done" => n_read' = Len(dataset)]_vars

\* coco-instance has skipped an unlabeled first sample and exported the second
C5_Witness ==
    /\ ex_pc = "done"
    /\ export_format = "coco-instance"
    /\ Len(dataset) = 2
    /\ ~dataset[1].has_annotations /\ dataset[2].has_annotations
    /\ n_read = 2
    /\ Len(images) = 1 /\ images[1].file_name = 1
    /\ Len(annotations) = 2

\* ---- C6 (Spec) ----
StrictlyIncreasing(ids) == \A a \in DOMAIN ids : \A b \in DOMAIN ids : a < b => ids[a] < ids[b]

ImageIds == [k \in DOMAIN images |-> images[k].id]

AnnotationIds == [k \in DOMAIN annotations |-> annotations[k].id]

\* C6 as stated: in the coco-instance document the image ids and the
\* annotation ids each start at 1 and are strictly increasing in emission order.
C6_IdsStartAtOne ==
    (export_format = "coco-instance" /\ ex_pc \in {"loop", "done"})
        => /\ Len(images) > 0 => ImageIds[1] = 1
           /\ StrictlyIncreasing(ImageIds)
           /\ Len(annotations) > 0 => AnnotationIds[1] = 1
           /\ StrictlyIncreasing(AnnotationIds)

\* C6 amended: an image id is its sample's dataset index + 1, so the image ids
\* are at least 1 and strictly increasing in dataset order; the annotation ids
\* are 1, 2, 3, ... in emission order, which is sample order and then
\* annotation order.
C6_IdsFollowIndex ==
    (export_format = "coco-instance" /\ ex_pc \in {"loop", "done"})
        => /\ \A k \in DOMAIN images : images[k].id = images[k].file_name + 1
           /\ \A k \in DOMAIN images : images[k].id >= 1
           /\ StrictlyIncreasing(ImageIds)
           /\ \A k \in DOMAIN annotations : annotations[k].id = k
           /\ \A a \in DOMAIN annotations : \A b \in DOMAIN annotations :
                 a < b => annotations[a].image_id <= annotations[b].image_id
           /\ annotation_id = Len(annotations) + 1

\* the first sample was skipped and the second holds an instance without pixels
C6_Witness ==
    /\ export_format = "coco-instance"
    /\ ex_pc = "done"
    /\ Len(dataset) = 2
    /\ ~dataset[1].has_annotations
    /\ Len(dataset[2].annotations) = 2
    /\ Len(images) = 1 /\ images[1].id = 2
    /\ Len(annotations) = 1 /\ annotations[1].id = 1 /\ annotations[1].image_id = 2

\* ---- C7, C8 (Spec) ----
\* the task types the format descriptions allow for a format
Permitted(format, ttype) ==
    IF format = "yolo" THEN ttype \in {"vector", "bboxes"}
    ELSE IF format = "coco-instance" THEN ttype \in SegmentationTypes \cup {"bboxes"}
    ELSE ttype \in SegmentationTypes

\* C7 as stated: with a task type not permitted for the format, no export reads
\* a sample, writes a file or returns.
C7_AbortBeforeProcessing ==
    ~Permitted(export_format, task_type)
        => n_read = 0 /\ files = <<>> /\ ex_pc # "done"

\* C7 amended: with a task type not permitted for the format, an export
\* started through export_dataset, and export_yolo called directly, raise
\* ValueError before any sample is read and before any file is written.
C7_DispatcherAborts ==
    (~Permitted(export_format, task_type) /\ ex_pc # "idle"
        /\ (entry = "export_dataset" \/ export_format = "yolo"))
        => /\ ex_pc = "error" /\ ex_error = "ValueError"
           /\ n_read = 0
           /\ files = <<>>

C7_Witness ==
    /\ entry = "export_dataset"
    /\ export_format = "semantic"
    /\ task_type = "vector"
    /\ Len(dataset) = 2 /\ dataset[1].has_annotations
    /\ ex_pc = "error" /\ ex_error = "ValueError"
    /\ n_read = 0 /\ files = <<>>

\* the annotations of the samples that have any, in dataset order
RECURSIVE AllAnnotations(_)
AllAnnotations(samples) ==
    IF samples = <<>> THEN <<>>
    ELSE (IF Head(samples).has_annotations THEN Head(samples).annotations ELSE <<>>)
         \o AllAnnotations(Tail(samples))

\* C8: a bboxes dataset exported to coco-instance is accepted and gets, for
\* every annotation, bbox = [x0, y0, x1 - x0, y1 - y0] from its corner points,
\* with no raster needed.
C8_BoxesToCocoInstance ==
    (export_format = "coco-instance" /\ task_type = "bboxes")
        => /\ ex_pc # "error"
           /\ ex_pc = "done" =>
                /\ Len(annotations) = Len(AllAnnotations(dataset))
                /\ \A k \in DOMAIN annotations :
                      LET pts == AllAnnotations(dataset)[k].points
                      IN  annotations[k].bbox =
                              <<pts[1][1], pts[1][2], pts[2][1] - pts[1][1],
                                pts[2][2] - pts[1][2]>>

\* ---- C9 (Spec) ----
\* the number of pixels of a raster that hold the id
PixelCount(raster, id) ==
    Cardinality({rc \in {<<r, c>> : r \in DOMAIN raster, c \in DOMAIN raster[1]} :
                    raster[rc[1]][rc[2]] = id})

\* <<image id, category id, pixel count>> of the annotations, among those of
\* the samples from position k on, whose instance id labels a pixel
RECURSIVE LabeledInstances(_, _)
LabeledInstances(samples, k) ==
    IF k > Len(samples) THEN <<>>
    ELSE LET sample == samples[k]
             found(a) == PixelCount(sample.segmentation_bitmap, a.id) > 0
             kept == IF sample.has_annotations
                     THEN SelectSeq(sample.annotations, found) ELSE <<>>
         IN  [j \in DOMAIN kept |->
                 <<k, kept[j].category_id,
                   PixelCount(sample.segmentation_bitmap, kept[j].id)>>]
             \o LabeledInstances(samples, k + 1)

\* <<image id, category id, area>> of the segments_info entries written so far
RECURSIVE SegmentsWritten(_)
SegmentsWritten(entries) ==
    IF entries = <<>> THEN <<>>
    ELSE LET e == Head(entries)
         IN  [j \in DOMAIN e.segments_info |->
                 <<e.image_id, e.segments_info[j].category_id, e.segments_info[j].area>>]
             \o SegmentsWritten(Tail(entries))

\* <<image id, category id, area>> of the coco-instance annotations written so far
InstancesWritten ==
    [k \in DOMAIN annotations |->
        <<annotations[k].image_id, annotations[k].category_id, annotations[k].area>>]

\* C9: in coco-instance and coco-panoptic an annotation whose instance id
\* labels no pixel of the raster gets no entry and raises no error, and the
\* other annotations of the sample and of the later samples get theirs.
C9_EmptyInstanceSkipped ==
    (export_format \in {"coco-instance", "coco-panoptic"}
        /\ task_type \in SegmentationTypes /\ ex_pc \in {"loop", "done", "error"})
        => /\ ex_pc # "error"
           /\ (IF export_format = "coco-instance" THEN InstancesWritten
               ELSE SegmentsWritten(annotations))
              = LabeledInstances(SubSeq(dataset, 1, i), 1)

\* coco-panoptic went past an annotation without pixels that comes first in
\* its sample, and exported the next sample too
C9_Witness ==
    /\ export_format = "coco-panoptic"
    /\ ex_pc = "done"
    /\ Len(dataset) = 2
    /\ dataset[1].has_annotations /\ Len(dataset[1].annotations) = 2
    /\ PixelCount(dataset[1].segmentation_bitmap, dataset[1].annotations[1].id) = 0
    /\ Len(annotations) = 2
    /\ Len(annotations[1].segments_info) = 1
    /\ Len(annotations[2].segments_info) = 2

\* ---- C10 (Spec) ----
IsBox(a) == a.type = "bbox"

\* the line the claim gives for a box: cx = (x0+x1)/(2W), cy = (y0+y1)/(2H),
\* w = |x1-x0|/W, h = |y1-y0|/H, to six decimals
ClaimedLine(a, w, h) ==
    [category_id |-> a.category_id,
     x_center |-> Format6(<<a.points[1][1] + a.points[2][1], 2 * w>>),
     y_center |-> Format6(<<a.points[1][2] + a.points[2][2], 2 * h>>),
     width |-> Format6(<<Abs(a.points[2][1] - a.points[1][1]), w>>),
     height |-> Format6(<<Abs(a.points[2][2] - a.points[1][2]), h>>)]

ClaimedLines(sample) ==
    LET boxes == SelectSeq(sample.annotations, IsBox)
    IN  [j \in DOMAIN boxes |-> ClaimedLine(boxes[j], sample.width, sample.height)]

\* every value of the line is in [0, 1]
InUnitRange(line) ==
    /\ line.x_center \in 0 .. 1000000
    /\ line.y_center \in 0 .. 1000000
    /\ line.width \in 0 .. 1000000
    /\ line.height \in 0 .. 1000000

YoloFiles == {k \in DOMAIN files : files[k].kind = "txt"}

\* C10 as stated: while the export has not raised, the .txt file of a sample
\* holds one line per bbox annotation, in order, none for another annotation, each line as the claim
\* computes it, and all four values of every line are in [0, 1].
C10_YoloLinesInRange ==
    (export_format = "yolo" /\ ex_pc # "error") =>
        \A k \in YoloFiles :
            /\ files[k].content = ClaimedLines(dataset[files[k].sample + 1])
            /\ \A j \in DOMAIN files[k].content : InUnitRange(files[k].content[j])

\* ---- C11 (SpecBitmap) ----
\* every id of the raster given to bitmap2file is below 2^24
IdsBelowLimit == \A r \in DOMAIN codec_in.given : \A c \in DOMAIN codec_in.given[r] :
                    codec_in.given[r][c] < IdLimit

\* C11: for a uint32 id raster the image bitmap2file writes has alpha 255 at
\* every pixel and R, G, B equal to id2rgb(id); the caller's raster is as it was
\* given; and extract_bitmap of that image is the raster given when every id is
\* below 2^24.
C11_BitmapFileRoundTrip ==
    (codec_in.kind = "bitmap" /\ codec_in.dtype = "uint32"
        /\ codec_pc \in {"filed", "extracted", "raised"})
        => /\ codec_pc # "raised"
           /\ codec_in.map = codec_in.given
           /\ DOMAIN codec_rgb = DOMAIN codec_in.given
           /\ \A r \in DOMAIN codec_in.given :
                 /\ DOMAIN codec_rgb[r] = DOMAIN codec_in.given[r]
                 /\ \A c \in DOMAIN codec_in.given[r] :
                       /\ codec_rgb[r][c][4] = 255
                       /\ SubSeq(codec_rgb[r][c], 1, 3) = id2rgb(codec_in.given[r][c])
           /\ (codec_pc = "extracted" /\ IdsBelowLimit) => codec_out = codec_in.given

\* a raster whose first id has three different non-zero bytes went through
\* bitmap2file and extract_bitmap
C11_Witness ==
    /\ codec_in.kind = "bitmap" /\ codec_in.dtype = "uint32"
    /\ codec_pc = "extracted"
    /\ codec_in.given = <<<<256 * 256 * 255 + 256 * 128 + 1, 256>>>>
    /\ codec_rgb = <<<<<<1, 128, 255, 255>>, <<0, 1, 0, 255>>>>>>
    /\ codec_out = codec_in.given

\* ---- C12 (Spec) ----
\* [minCol, minRow, maxCol - minCol, maxRow - minRow] over the pixels (0-based)
\* of the raster that hold the id, the maxima one past the last such pixel
ClaimedBBox(raster, id) ==
    LET rows == {r \in 0 .. Len(raster) - 1 :
                    \E c \in DOMAIN raster[r + 1] : raster[r + 1][c] = id}
        cols == {c \in 0 .. Len(raster[1]) - 1 :
                    \E r \in DOMAIN raster : raster[r][c + 1] = id}
        minRow == CHOOSE r \in rows : \A q \in rows : r <= q
        minCol == CHOOSE c \in cols : \A q \in cols : c <= q
        maxRow == 1 + CHOOSE r \in rows : \A q \in rows : r >= q
        maxCol == 1 + CHOOSE c \in cols : \A q \in cols : c >= q
    IN  <<minCol, minRow, maxCol - minCol, maxRow - minRow>>

\* <<image id, bbox, area>> the claim gives for the annotations, among those of
\* the samples from position k on, whose instance id labels a pixel
RECURSIVE ClaimedBoxes(_, _)
ClaimedBoxes(samples, k) ==
    IF k > Len(samples) THEN <<>>
    ELSE LET sample == samples[k]
             found(a) == PixelCount(sample.segmentation_bitmap, a.id) > 0
             kept == IF sample.has_annotations
                     THEN SelectSeq(sample.annotations, found) ELSE <<>>
         IN  [j \in DOMAIN kept |->
                 <<k, ClaimedBBox(sample.segmentation_bitmap, kept[j].id),
                   PixelCount(sample.segmentation_bitmap, kept[j].id)>>]
             \o ClaimedBoxes(samples, k + 1)

\* <<image id, bbox, area>> of the segments_info entries written so far
RECURSIVE SegmentBoxesWritten(_)
SegmentBoxesWritten(entries) ==
    IF entries = <<>> THEN <<>>
    ELSE LET e == Head(entries)
         IN  [j \in DOMAIN e.segments_info |->
                 <<e.image_id, e.segments_info[j].bbox, e.segments_info[j].area>>]
             \o SegmentBoxesWritten(Tail(entries))

\* <<image id, bbox, area>> of the entries written so far by either emitter
BoxesWritten ==
    IF export_format = "coco-instance"
    THEN [k \in DOMAIN annotations |->
            <<annotations[k].image_id, annotations[k].bbox, annotations[k].area>>]
    ELSE SegmentBoxesWritten(annotations)

\* the entries written carry the bbox and the area of the claim's formula
BoxesAsClaimed ==
    (export_format \in {"coco-instance", "coco-panoptic"}
        /\ task_type \in SegmentationTypes /\ ex_pc \in {"loop", "done"})
        => BoxesWritten = ClaimedBoxes(SubSeq(dataset, 1, i), 1)

LabeledCount == Cardinality({k \in DOMAIN dataset : dataset[k].has_annotations})

\* the file holds all of its content: a .txt file a line for every bbox
\* annotation of its sample; a JSON document, written when the loop is over, an
\* image entry and an annotation list for every labelled sample; a PNG a pixel
\* for every pixel of the raster
FileComplete(f) ==
    LET sample == dataset[f.sample + 1]
    IN  IF f.kind = "txt"
        THEN Len(f.content) = Len(SelectSeq(sample.annotations, IsBox))
        ELSE IF f.kind = "json"
        THEN /\ ex_pc = "done"
             /\ Len(f.content.images) = LabeledCount
             /\ f.content.annotations = annotations
        ELSE /\ Len(f.content) = sample.height
             /\ \A r \in DOMAIN f.content : Len(f.content[r]) = sample.width

\* C13: every output file is written with its complete content, also in an
\* execution that raises part-way through a sample or through the export.
C13_NoPartialFile == \A k \in DOMAIN files : FileComplete(files[k])

\* ---- C14 (SpecRetry) ----
\* the color is a color of [0, 255]^3 within max_dist of the base color on
\* every channel
InNeighbourhood(color, base) ==
    \A ch \in 1 .. 3 :
        color[ch] \in Max(0, base[ch] - max_dist) .. Min(255, base[ch] + max_dist)

\* a color the loop of the call for category c can draw is not taken
HasFreeCandidate(c) ==
    \E color \in Candidates(rng_offsets, categories[c].color) : color \notin taken_colors

\* C14: a call of get_color that is in its retry loop returns, when the draws
\* are fair, if a color it can draw is free, and the color it returns is in the
\* clamped +/- max_dist neighbourhood of the base color; if no such color is
\* free the call stays in the loop for ever and taken_colors does not change.
C14_RetryLoop ==
    /\ \A c \in 1 .. 5 :
          [](( InLoop /\ ret.cat_id = c /\ HasFreeCandidate(c))
                => <>(/\ ret.op = "get_color"
                      /\ ret.cat_id = c
                      /\ InNeighbourhood(ret.color, categories[c].color)))
    /\ [][(InLoop /\ ~HasFreeCandidate(ret.cat_id))
            => (ret' = ret /\ taken_colors' = taken_colors /\ calls' = calls)]_vars
    /\ [][(InLoop /\ ret'.op = "loop") => taken_colors' = taken_colors]_vars

\* a call that found its base color taken came back from the loop with a color
\* other than the base color, after an earlier call for the same base color
C14_Witness ==
    /\ ret.op = "get_color"
    /\ Len(calls) = 2
    /\ categories[ret.cat_id].isthing = 1
    /\ ret.color # categories[ret.cat_id].color
    /\ calls[1].color = categories[ret.cat_id].color
    /\ ret.color \in taken_colors

\* a call is in the loop and every color it can draw is taken
C14_Exhausted == InLoop /\ ~HasFreeCandidate(ret.cat_id)

\* ---- C15 (Spec) ----
\* the built-in palette entry (v - 1) mod 36 for a non-zero instance id v, and
\* black for 0
ClaimedPreviewColor(v) ==
    IF v = 0 THEN <<0, 0, 0>> ELSE COLORMAP[((v - 1) % 36) + 1]

\* C15: in an instance-color file every pixel with a non-zero instance id v has
\* the color of palette entry (v - 1) mod 36 and every pixel with id 0 is black,
\* for every id of the raster, also v >= 256.
C15_InstanceColorPalette ==
    export_format = "instance-color" =>
        \A k \in DOMAIN files :
            LET raster == dataset[files[k].sample + 1].segmentation_bitmap
            IN  files[k].content =
                    [r \in DOMAIN raster |-> [c \in DOMAIN raster[r] |->
                        ClaimedPreviewColor(raster[r][c])]]

\* ---- C16 (Spec) ----
\* the positions <<row, column>> of a raster
Positions(raster) == {<<r, c>> : r \in DOMAIN raster, c \in DOMAIN raster[1]}

\* the annotations of the sample whose instance id labels a pixel: the ones
\* that got a segments_info entry, in order
KeptAnnotations(sample) ==
    LET found(a) == PixelCount(sample.segmentation_bitmap, a.id) > 0
    IN  SelectSeq(sample.annotations, found)

\* the positions of the composite whose packed color is the id
PixelsOfId(png, id) == {p \in Positions(png) : rgb2id(png[p[1]][p[2]]) = id}

\* the positions of the raster that hold the instance id
PixelsOfInstance(raster, instance_id) ==
    {p \in Positions(raster) : raster[p[1]][p[2]] = instance_id}

\* the samples coco-panoptic has written, as <<raster, kept annotations,
\* segments_info, composite>>
PanopticWritten ==
    [k \in DOMAIN annotations |->
        LET sample == dataset[annotations[k].image_id]
        IN  [raster |-> sample.segmentation_bitmap,
             kept |-> KeptAnnotations(sample),
             info |-> annotations[k].segments_info,
             png |-> files[k].content]]

InPanoptic ==
    /\ export_format = "coco-panoptic"
    /\ task_type \in SegmentationTypes
    /\ ex_pc \in {"loop", "done"}

OfThing(e) == categories[e.category_id].isthing = 1

ConfiguredColor(c) ==
    LET p == CHOOSE q \in DOMAIN ds_categories : ds_categories[q].id = c
    IN  IF ds_categories[p].has_color THEN ds_categories[p].color
        ELSE COLORMAP[((p - 1) % 36) + 1]

\* the color the claim gives a pixel with instance id v: that of the category
\* of the annotation with id v, black when there is none
ClaimedSemanticColor(sample, v) ==
    LET anns == {a \in Range(sample.annotations) : a.id = v}
    IN  IF anns = {} THEN <<0, 0, 0>>
        ELSE ConfiguredColor((CHOOSE a \in anns : TRUE).category_id)

\* C17: the semantic-color export raises no IndexError and paints every pixel
\* of an instance with the configured color of the category of its annotation,
\* and the other pixels black, for every id_increment.
C17_SemanticColor ==
    (export_format = "semantic-color" /\ task_type \in SegmentationTypes) =>
        /\ ex_error # "IndexError"
        /\ \A k \in DOMAIN files :
              LET sample == dataset[files[k].sample + 1]
                  raster == sample.segmentation_bitmap
              IN  files[k].content =
                      [r \in DOMAIN raster |-> [c \in DOMAIN raster[r] |->
                          ClaimedSemanticColor(sample, raster[r][c])]]

=============================================================================
